---- MODULE Spec2Model ----
(***************************************************************************)
(* RouletteEnv (gym_roulette/envs/roulette.py): a one-table roulette       *)
(* environment.  The state of an instance is its history list and its      *)
(* random generator; seed, step and reset are its operations.              *)
(*                                                                         *)
(* Stakes are real numbers of the unit box [0,1].  They are modelled in    *)
(* integer units of 1/StakeScale, so a stake of 1 is StakeScale units and  *)
(* rewards are in the same units.  Arrays are functions on 0..k-1, as      *)
(* numpy indexes them; a 2-D array is a function of rows.                  *)
(***************************************************************************)
EXTENDS Integers, Sequences, FiniteSets, TLC

(* ---- bounds of the model ---- *)
StakeScale == 2    \* stakes are multiples of 1/StakeScale
MaxHistory == 3    \* play steps per episode
MaxSeed == 2       \* explicit seeds are 0..MaxSeed-1, entropy seeds 0..MaxSeed

(* ---- constants of the program ---- *)
n == 37
ActionDim == 152
LeaveObservation == 38
LeaveReward == -10
LeaveEntry == -1   \* stands for the string "leave" in a history
NoSeed == -1       \* stands for seed=None

Gains ==
  ("0" :> 35) @@ ("single" :> 35) @@ ("line_split" :> 17) @@
  ("column_split" :> 17) @@ ("street" :> 11) @@ ("corner" :> 8) @@
  ("six_line" :> 5) @@ ("half" :> 1) @@ ("red_black" :> 1) @@
  ("even_odd" :> 1) @@ ("dozen_bet" :> 2) @@ ("column_bet" :> 2)

Red == {1, 3, 5, 7, 9, 12, 14, 16, 18, 19, 21, 23, 25, 27, 30, 32, 34, 36}

\* spaces.Discrete(spots+1): the observations 0..spots
ObservationSpace == 0..n

(* ---- numpy helpers ---- *)
Size(v) == Cardinality(DOMAIN v)

\* v[lo:hi]
Slice(v, lo, hi) == [i \in 0..(hi - lo - 1) |-> v[lo + i]]

\* v.reshape((rows, cols)), row-major
Reshape(v, rows, cols) ==
  [r \in 0..(rows - 1) |-> [c \in 0..(cols - 1) |-> v[r * cols + c]]]

\* M[1:,:] and M[:-1,:]
RowsFrom1(M) == [r \in 0..(Size(M) - 2) |-> M[r + 1]]
RowsButLast(M) == [r \in 0..(Size(M) - 2) |-> M[r]]

\* M[:,1:] and M[:,:-1]
ColsFrom1(M) == [r \in DOMAIN M |-> [c \in 0..(Size(M[r]) - 2) |-> M[r][c + 1]]]
ColsButLast(M) == [r \in DOMAIN M |-> [c \in 0..(Size(M[r]) - 2) |-> M[r][c]]]

\* np.tile(v, (3, 1)).T : row r holds v[r] three times
TileT(v) == [r \in DOMAIN v |-> [c \in 0..2 |-> v[r]]]

\* np.eye(k)
Eye(k) == [i \in 0..(k - 1) |-> [j \in 0..(k - 1) |-> IF i = j THEN 1 ELSE 0]]

RECURSIVE SumTo(_, _)
SumTo(v, k) == IF k = 0 THEN 0 ELSE v[k - 1] + SumTo(v, k - 1)

\* np.sum of a 1-D array
NpSum1(v) == SumTo(v, Size(v))

\* np.sum of a 2-D array
NpSum2(M) == SumTo([r \in DOMAIN M |-> NpSum1(M[r])], Size(M))

\* np.sum(A * g * B) for 2-D arrays of one shape
SumProd2(A, g, B) ==
  NpSum2([r \in DOMAIN A |-> [c \in DOMAIN A[r] |-> A[r][c] * g * B[r][c]]])

\* np.sum(e * v * g) for 1-D arrays of one shape
SumProd1(e, v, g) == NpSum1([i \in DOMAIN v |-> e[i] * v[i] * g])

(* ---- the action space and the action dictionary ---- *)
\* spaces.Box(low=0, high=1, shape=(152,)).contains(action)
Contains(action) ==
  /\ Size(action) = ActionDim
  /\ \A i \in DOMAIN action : 0 <= action[i] /\ action[i] <= StakeScale

MatrixNames == {"single", "line_split", "column_split", "corner"}

ActionDict(action) ==
  ("0" :> Slice(action, 0, 1)) @@
  ("single" :> Reshape(Slice(action, 1, 37), 12, 3)) @@
  ("line_split" :> Reshape(Slice(action, 37, 61), 12, 2)) @@
  ("column_split" :> Reshape(Slice(action, 61, 94), 11, 3)) @@
  ("street" :> Slice(action, 94, 106)) @@
  ("corner" :> Reshape(Slice(action, 106, 128), 11, 2)) @@
  ("six_line" :> Slice(action, 128, 139)) @@
  ("half" :> Slice(action, 139, 141)) @@
  ("red_black" :> Slice(action, 141, 143)) @@
  ("even_odd" :> Slice(action, 143, 145)) @@
  ("dozen_bet" :> Slice(action, 145, 148)) @@
  ("column_bet" :> Slice(action, 148, Size(action) - 1)) @@
  ("leave" :> Slice(action, Size(action) - 1, Size(action)))

\* action_dict["leave"] == 1
LeaveIsOne(action_dict) == action_dict["leave"][0] = StakeScale

(* ---- the payout of a drawn value ---- *)
\* val_arr = np.zeros((12, 3)); val_arr[(val-1)//3, (val-1)%3] = 1
ValArr(val) ==
  [r \in 0..11 |-> [c \in 0..2 |->
     IF r = (val - 1) \div 3 /\ c = (val - 1) % 3 THEN 1 ELSE 0]]

SinglePayout(action_dict, val_arr) ==
  SumProd2(action_dict["single"], Gains["single"], val_arr)

LineSplitPayout(action_dict, val_arr) ==
  SumProd2(action_dict["line_split"], Gains["line_split"], ColsFrom1(val_arr))
  + SumProd2(action_dict["line_split"], Gains["line_split"], ColsButLast(val_arr))

ColumnSplitPayout(action_dict, val_arr) ==
  SumProd2(action_dict["column_split"], Gains["column_split"], RowsFrom1(val_arr))
  + SumProd2(action_dict["column_split"], Gains["column_split"], RowsButLast(val_arr))

StreetPayout(action_dict, val_arr) ==
  SumProd2(TileT(action_dict["street"]), Gains["street"], val_arr)

CornerPayoutSkipsAPlacement(action_dict, val_arr) ==
  SumProd2(action_dict["corner"], Gains["corner"], ColsFrom1(RowsFrom1(val_arr)))
  + SumProd2(action_dict["corner"], Gains["corner"], ColsButLast(RowsFrom1(val_arr)))
  + SumProd2(action_dict["corner"], Gains["corner"], ColsFrom1(RowsButLast(val_arr)))

CornerPayout(action_dict, val_arr) ==
  SumProd2(action_dict["corner"], Gains["corner"], ColsFrom1(RowsFrom1(val_arr)))
  + SumProd2(action_dict["corner"], Gains["corner"], ColsButLast(RowsFrom1(val_arr)))
  + SumProd2(action_dict["corner"], Gains["corner"], ColsFrom1(RowsButLast(val_arr)))
  + SumProd2(action_dict["corner"], Gains["corner"], ColsButLast(RowsButLast(val_arr)))

SixLinePayout(action_dict, val_arr) ==
  SumProd2(TileT(action_dict["six_line"]), Gains["six_line"], RowsFrom1(val_arr))
  + SumProd2(TileT(action_dict["six_line"]), Gains["six_line"], RowsButLast(val_arr))

HalfPayout(action_dict, val) ==
  SumProd1(Eye(2)[IF val > 18 THEN 1 ELSE 0], action_dict["half"], Gains["half"])

RedBlackPayout(action_dict, val) ==
  SumProd1(Eye(2)[IF val \notin Red THEN 1 ELSE 0],
           action_dict["red_black"], Gains["red_black"])

EvenOddPayout(action_dict, val) ==
  SumProd1(Eye(2)[val % 2], action_dict["even_odd"], Gains["even_odd"])

DozenPayoutByTens(action_dict, val) ==
  SumProd1(Eye(3)[IF val > 30 THEN 2 ELSE (val - 1) \div 10],
           action_dict["dozen_bet"], Gains["dozen_bet"])

DozenPayout(action_dict, val) ==
  SumProd1(Eye(3)[(val - 1) \div 12], action_dict["dozen_bet"], Gains["dozen_bet"])

ColumnPayout(action_dict, val) ==
  SumProd1(Eye(3)[(val - 1) % 3], action_dict["column_bet"], Gains["column_bet"])

\* lines 107-143: the reward before the stakes are subtracted
Payout(action_dict, val) ==
  IF val = 0
  THEN action_dict["0"][0] * Gains["0"]
  ELSE LET val_arr == ValArr(val)
       IN SinglePayout(action_dict, val_arr)
          + LineSplitPayout(action_dict, val_arr)
          + ColumnSplitPayout(action_dict, val_arr)
          + StreetPayout(action_dict, val_arr)
          + CornerPayout(action_dict, val_arr)
          + SixLinePayout(action_dict, val_arr)
          + HalfPayout(action_dict, val)
          + RedBlackPayout(action_dict, val)
          + EvenOddPayout(action_dict, val)
          + DozenPayout(action_dict, val)
          + ColumnPayout(action_dict, val)

RECURSIVE SumBets(_, _)
\* for name, bets in action_dict.items(): reward -= np.sum(bets)
SumBets(action_dict, names) ==
  IF names = {} THEN 0
  ELSE LET name == CHOOSE x \in names : TRUE
       IN (IF name \in MatrixNames
           THEN NpSum2(action_dict[name])
           ELSE NpSum1(action_dict[name]))
          + SumBets(action_dict, names \ {name})

\* the reward of a play-path step that drew val
Reward(action, val) ==
  LET action_dict == ActionDict(action)
  IN Payout(action_dict, val) - SumBets(action_dict, DOMAIN action_dict)

(* ---- the random generator ---- *)
\* The generator of seeding.np_random is modelled as a 64-state linear
\* congruential generator: deterministic in its seed, one state per draw.
RngStates == 0..63

\* the generator state that seeding.np_random builds from a seed
SeedRng(seed) == (21 * seed + 37) % 64

\* the generator state after one draw
NextRng(rng) == (5 * rng + 3) % 64

\* np_random.randint(lo, hi): the value a generator in state rng draws, in [lo, hi)
Randint(rng, lo, hi) == lo + (rng % (hi - lo))

Seeds == 0..(MaxSeed - 1)
\* the seeds that seeding.np_random(None) may take from the system's entropy
EntropySeeds == 0..MaxSeed

NpRandomIgnoresSeed(seed, entropy) == SeedRng(entropy)

\* seeding.np_random(seed): the generator for seed, or for an entropy seed on None
NpRandom(seed, entropy) ==
  IF seed = NoSeed THEN SeedRng(entropy) ELSE SeedRng(seed)

(* ---- the state of one RouletteEnv instance ---- *)
VARIABLES
  history,    \* self.history
  np_random,  \* self.np_random, the state of the generator
  seeded,     \* the seed argument self.np_random was last built from
  sinceSeed,  \* play-path draws made on the current self.np_random
  plays,      \* play-path steps since construction or the last reset
  call,       \* the last call: its operation and arguments
  result      \* what the last call returned or raised

vars == <<history, np_random, seeded, sinceSeed, plays, call, result>>

NoAction == [i \in {} |-> 0]

Call(op, action, seed) == [op |-> op, action |-> action, seed |-> seed]

Returned(kind, obs, reward, done, info) ==
  [kind |-> kind, obs |-> obs, reward |-> reward, done |-> done, info |-> info]

(* ---- the wager vectors the calls are made with ---- *)
\* the vector that stakes u on every slot of S and has leave component l
StakeOn(S, u, l) ==
  [k \in 0..(ActionDim - 1) |-> IF k = ActionDim - 1 THEN l ELSE IF k \in S THEN u ELSE 0]

BetSlots == 0..(ActionDim - 2)

ValidWagers ==
  { StakeOn({}, 0, 0),
    StakeOn({}, 0, 1),
    StakeOn({}, 0, StakeScale),
    StakeOn(BetSlots, StakeScale, StakeScale),
    StakeOn({0, 1, 37, 61, 94, 106, 128, 139, 141, 143, 145, 148}, 1, 0),
    StakeOn({116, 117, 118, 119}, StakeScale, 0) }

InvalidWagers ==
  { [k \in 0..(ActionDim - 2) |-> 0],
    [k \in 0..ActionDim |-> 0],
    [StakeOn({}, 0, 0) EXCEPT ![5] = StakeScale + 1],
    [StakeOn({}, 0, 0) EXCEPT ![5] = -1],
    StakeOn({}, 0, StakeScale + 1),
    StakeOn({}, 0, -1) }

Wagers == ValidWagers \cup InvalidWagers

(* ---- the operations ---- *)
Init ==
  /\ history = <<>>
  /\ np_random \in {NpRandom(NoSeed, e) : e \in EntropySeeds}
  /\ seeded = NoSeed
  /\ sinceSeed = 0
  /\ plays = 0
  /\ call = Call("init", NoAction, NoSeed)
  /\ result = Returned("none", 0, 0, FALSE, <<>>)

\* seed(seed)
Seed(seed) ==
  \E e \in EntropySeeds :
    /\ np_random' = NpRandom(seed, e)
    /\ seeded' = seed
    /\ sinceSeed' = 0
    /\ call' = Call("seed", NoAction, seed)
    /\ result' = Returned("seed", 0, 0, FALSE, <<IF seed = NoSeed THEN e ELSE seed>>)
    /\ UNCHANGED <<history, plays>>

StepAssertAfterDraw(action) ==
  /\ Len(history) < MaxHistory
  /\ np_random' = NextRng(np_random)
  /\ history' = Append(history, Randint(np_random, 0, n))
  /\ sinceSeed' = sinceSeed + 1
  /\ call' = Call("step", action, NoSeed)
  /\ result' = Returned("AssertionError", 0, 0, FALSE, <<>>)
  /\ UNCHANGED <<seeded, plays>>

\* step, line 77: the assertion fails
StepAssert(action) ==
  /\ call' = Call("step", action, NoSeed)
  /\ result' = Returned("AssertionError", 0, 0, FALSE, <<>>)
  /\ UNCHANGED <<history, np_random, seeded, sinceSeed, plays>>

StepLeaveAfterDraw(action) ==
  /\ np_random' = NextRng(np_random)
  /\ call' = Call("step", action, NoSeed)
  /\ result' = Returned("step", LeaveObservation, LeaveReward * StakeScale, TRUE,
                        Append(history, LeaveEntry))
  /\ UNCHANGED <<history, seeded, sinceSeed, plays>>

\* step, lines 94-95: the leave path
StepLeave(action) ==
  /\ call' = Call("step", action, NoSeed)
  /\ result' = Returned("step", LeaveObservation, LeaveReward * StakeScale, TRUE,
                        Append(history, LeaveEntry))
  /\ UNCHANGED <<history, np_random, seeded, sinceSeed, plays>>

StepPlayOverwritesHistory(action) ==
  /\ Len(history) < MaxHistory
  /\ LET val == Randint(np_random, 0, n)
     IN /\ np_random' = NextRng(np_random)
        /\ history' = <<val>>
        /\ call' = Call("step", action, NoSeed)
        /\ result' = Returned("step", val, Reward(action, val), FALSE, history')
  /\ sinceSeed' = sinceSeed + 1
  /\ plays' = plays + 1
  /\ UNCHANGED seeded

\* step, lines 96-149: the play path
StepPlay(action) ==
  /\ Len(history) < MaxHistory
  /\ LET val == Randint(np_random, 0, n)
     IN /\ np_random' = NextRng(np_random)
        /\ history' = Append(history, val)
        /\ call' = Call("step", action, NoSeed)
        /\ result' = Returned("step", val, Reward(action, val), FALSE, history')
  /\ sinceSeed' = sinceSeed + 1
  /\ plays' = plays + 1
  /\ UNCHANGED seeded

\* step(action)
Step(action) ==
  IF ~Contains(action)
  THEN StepAssert(action)
  ELSE IF LeaveIsOne(ActionDict(action))
       THEN StepLeave(action)
       ELSE StepPlay(action)

ResetKeepsHistory ==
  \E e \in EntropySeeds :
    /\ np_random' = NpRandom(NoSeed, e)
    /\ seeded' = NoSeed
    /\ sinceSeed' = 0
    /\ plays' = 0
    /\ call' = Call("reset", NoAction, NoSeed)
    /\ result' = Returned("reset", 0, 0, FALSE, <<>>)
    /\ UNCHANGED history

\* reset()
Reset ==
  \E e \in EntropySeeds :
    /\ history' = <<>>
    /\ np_random' = NpRandom(NoSeed, e)
    /\ seeded' = NoSeed
    /\ sinceSeed' = 0
    /\ plays' = 0
    /\ call' = Call("reset", NoAction, NoSeed)
    /\ result' = Returned("reset", 0, 0, FALSE, <<>>)

Next ==
  \/ \E seed \in Seeds \cup {NoSeed} : Seed(seed)
  \/ \E action \in Wagers : Step(action)
  \/ Reset

Spec == Init /\ [][Next]_vars

(* ---- bet resolution alone: one settlement per drawn pocket ---- *)
\* one generator state for each pocket the wheel can draw
ResolveRngStates == {rng \in RngStates : rng < n}

\* the placements that can overlap on a pocket: splits along a row, corners, six-lines
OverlapSlices == {<<37, 61>>, <<106, 128>>, <<128, 139>>}

\* every wager on one slot, every pair of slots of one overlapping category at
\* full stake, and the whole table at each stake with each leave value below 1
ResolveWagers ==
  { StakeOn({i}, u, 0) : i \in BetSlots, u \in 1..StakeScale }
  \cup UNION { { StakeOn({i, j}, StakeScale, 0) : i \in b[1]..(b[2] - 1), j \in b[1]..(b[2] - 1) }
               : b \in OverlapSlices }
  \cup { StakeOn(BetSlots, u, l) : u \in 0..StakeScale, l \in 0..(StakeScale - 1) }

InitResolve ==
  /\ history = <<>>
  /\ np_random \in ResolveRngStates
  /\ seeded = NoSeed
  /\ sinceSeed = 0
  /\ plays = 0
  /\ call = Call("init", NoAction, NoSeed)
  /\ result = Returned("none", 0, 0, FALSE, <<>>)

NextResolve == \E action \in ResolveWagers : plays = 0 /\ Step(action)

SpecResolve == InitResolve /\ [][NextResolve]_vars

(* ---- what the claims speak of ---- *)
\* the last call was a step that passed the assertion and did not leave
IsPlayCall(c) ==
  /\ c.op = "step"
  /\ Contains(c.action)
  /\ c.action[ActionDim - 1] # StakeScale

IsLeaveCall(c) ==
  /\ c.op = "step"
  /\ Contains(c.action)
  /\ c.action[ActionDim - 1] = StakeScale

IsInvalidCall(c) == c.op = "step" /\ ~Contains(c.action)

\* the pocket at row r, column c of the 12 x 3 layout
Pocket(r, c) == 3 * r + c + 1

\* the pockets a bet slot covers, by the slot's index in the wager vector
Footprint(i) ==
  IF i = 0 THEN {0}
  ELSE IF i < 37 THEN {Pocket((i - 1) \div 3, (i - 1) % 3)}
  ELSE IF i < 61 THEN
    LET r == (i - 37) \div 2  j == (i - 37) % 2
    IN {Pocket(r, j), Pocket(r, j + 1)}
  ELSE IF i < 94 THEN
    LET r == (i - 61) \div 3  c == (i - 61) % 3
    IN {Pocket(r, c), Pocket(r + 1, c)}
  ELSE IF i < 106 THEN {Pocket(i - 94, c) : c \in 0..2}
  ELSE IF i < 128 THEN
    LET r == (i - 106) \div 2  j == (i - 106) % 2
    IN {Pocket(rr, cc) : rr \in {r, r + 1}, cc \in {j, j + 1}}
  ELSE IF i < 139 THEN {Pocket(rr, c) : rr \in {i - 128, i - 127}, c \in 0..2}
  ELSE IF i = 139 THEN 1..18
  ELSE IF i = 140 THEN 19..36
  ELSE IF i = 141 THEN Red
  ELSE IF i = 142 THEN (1..36) \ Red
  ELSE IF i = 143 THEN {v \in 1..36 : v % 2 = 0}
  ELSE IF i = 144 THEN {v \in 1..36 : v % 2 = 1}
  ELSE IF i < 148 THEN (12 * (i - 145) + 1)..(12 * (i - 145) + 12)
  ELSE {v \in 1..36 : (v - 1) % 3 = i - 148}

\* the odds the odds table gives a slot's category
SlotOdds(i) ==
  IF i < 37 THEN 35
  ELSE IF i < 94 THEN 17
  ELSE IF i < 106 THEN 11
  ELSE IF i < 128 THEN 8
  ELSE IF i < 139 THEN 5
  ELSE IF i < 145 THEN 1
  ELSE 2

RECURSIVE SumOver(_, _, _)
\* f[lo] + ... + f[hi]
SumOver(f, lo, hi) ==
  IF lo > hi THEN 0
  ELSE IF lo = hi THEN f[lo]
  ELSE LET mid == (lo + hi) \div 2
       IN SumOver(f, lo, mid) + SumOver(f, mid + 1, hi)

\* stake x odds summed over the bet slots that cover val
GrossPayout(val, action) ==
  SumOver([i \in BetSlots |-> IF val \in Footprint(i) THEN action[i] * SlotOdds(i) ELSE 0],
          0, ActionDim - 2)

\* the stakes on the 151 bet slots
BetStakes(action) == SumOver(action, 0, ActionDim - 2)

\* the slots a wager stakes on
StakedSlots(action) == {i \in BetSlots : action[i] > 0}

C8_LeaveContributesZero ==
  IsPlayCall(call)
    => result.reward = GrossPayout(result.obs, call.action) - BetStakes(call.action)

\* the pockets at which step pays the wager
PayingPockets(action) == {v \in 0..36 : Payout(ActionDict(action), v) > 0}

C3_LeaveIsRecorded ==
  (IsLeaveCall(call) /\ result.done)
    => /\ Len(history) >= 1
       /\ history[Len(history)] = LeaveEntry

\* C4: a play-path step appends the drawn value to the history and changes no
\* earlier entry; it returns that value, terminal = false, and the history, which
\* holds every draw since construction or the last reset.
C4_PlayAppendsDraw ==
  [][IsPlayCall(call')
       => /\ \E val \in 0..(n - 1) : history' = Append(history, val)
          /\ result'.kind = "step"
          /\ result'.obs = history'[Len(history')]
          /\ result'.obs = result'.info[Len(result'.info)]
          /\ ~result'.done
          /\ result'.info = history'
          /\ Len(history') = plays']_vars

\* a second play-path step of an episode, made with a leave value below 1
C4_Witness ==
  /\ IsPlayCall(call)
  /\ call.action[ActionDim - 1] = 1
  /\ Len(history) = 2
  /\ result.info = history
  /\ result.obs = history[2]

RECURSIVE RngAfter(_, _)
\* the generator state k draws after state rng
RngAfter(rng, k) == IF k = 0 THEN rng ELSE NextRng(RngAfter(rng, k - 1))

\* the k-th value a run draws after seed(s)
DrawAfterSeed(s, k) == Randint(RngAfter(SeedRng(s), k - 1), 0, n)

\* C6: after seed(s), with no reset since, the k-th play-path step draws the
\* k-th value of the sequence s determines, whatever the wagers and however many
\* leave steps or rejected steps come between: two such runs draw the same.
C6_SeedDeterminesDraws ==
  seeded # NoSeed
    => /\ sinceSeed <= Len(history)
       /\ \A k \in 1..sinceSeed :
            history[Len(history) - sinceSeed + k] = DrawAfterSeed(seeded, k)

\* a leave step after two draws on a seeded generator
C6_Witness ==
  /\ seeded = 1
  /\ sinceSeed = 2
  /\ IsLeaveCall(call)
  /\ history = <<DrawAfterSeed(1, 1), DrawAfterSeed(1, 2)>>

\* C7: reset returns observation 0, empties the history and replaces the
\* generator by an entropy-seeded one, whatever seed was set before; the first
\* play-path step after it reports a history of one entry.
C7_ResetStartsAfresh ==
  [][/\ call'.op = "reset"
          => /\ result' = Returned("reset", 0, 0, FALSE, <<>>)
             /\ history' = <<>>
             /\ seeded' = NoSeed
             /\ sinceSeed' = 0
             /\ np_random' \in {SeedRng(e) : e \in EntropySeeds}
     /\ (IsPlayCall(call') /\ plays = 0 /\ plays' = 1)
          => Len(result'.info) = 1]_vars

\* a reset has just returned
C7_Witness ==
  /\ call.op = "reset"
  /\ result = Returned("reset", 0, 0, FALSE, <<>>)
  /\ history = <<>>
  /\ plays = 0
  /\ seeded = NoSeed

\* C9: every observation step or reset returns lies in the declared observation
\* space 0..spots.
C9_ObservationInSpace ==
  result.kind \in {"step", "reset"} => result.obs \in ObservationSpace

====
